---- MODULE Spec2Model ----
(***************************************************************************)
(* Model of the EMS mock backend (backend/ems_api/services.py): the        *)
(* EMSSimulation state manager, its time gate and advance function, and    *)
(* the derivation functions that read the shared state.                    *)
(*                                                                         *)
(* Number representation.  The program computes in binary floating point; *)
(* the model computes in fixed point:                                      *)
(*   powers before rounding        1/1000 kW   (locals of the advance)     *)
(*   stored power[...]             1/100  kW   (after round(x, 2))         *)
(*   batterySOC stored             1/100  %    (after round(soc, 2))       *)
(*   soc before rounding           1/100000 %                              *)
(*   energyToday                   1/1000 kWh                              *)
(*   peakPowerToday                1/1000 kW                               *)
(*   costSavings, carbonAvoided    1/100000 unit                           *)
(*   sines                         1/1000                                  *)
(*   time                          1 ms, counted from local midnight of    *)
(*                                 the day the process starts              *)
(***************************************************************************)
EXTENDS Integers, Naturals, Sequences, FiniteSets, TLC

\* ------------------------------------------------------------------ bounds
NumThreads == 2
MaxAdvances == 4
MaxChartAdvances == 102
MaxConcAdvances == 2

\* ------------------------------------------------------- program constants
ChartCap == 100
GateMs == 100
InitialSOC == 7500
ActiveSites == 6
SolarNameplate == 50
BaseLoad == 80

\* ----------------------------------------------------------- time constants
MsPerSecond == 1000
MsPerMinute == 60000
MsPerHour == 3600000
MsPerDay == 86400000

\* ----------------------------------------------------------------- numbers
SinScale == 1000
HalfTurn == 720

Abs(x) == IF x < 0 THEN -x ELSE x
Min(a, b) == IF a <= b THEN a ELSE b
Max(a, b) == IF a >= b THEN a ELSE b

\* x / d truncated toward zero (d > 0)
TruncDiv(x, d) == IF x >= 0 THEN x \div d ELSE -((-x) \div d)

\* round(x / d) to the nearest integer, ties to even, as Python's round()
RoundDiv(x, d) ==
    LET q == x \div d
        r == x % d
    IN  IF 2 * r < d THEN q
        ELSE IF 2 * r > d THEN q + 1
        ELSE IF q % 2 = 0 THEN q ELSE q + 1

\* round(x, 2) of a quantity held in 1/1000 : result in 1/100
Round2(x) == RoundDiv(x, 10)

\* round(soc, 2) of a soc held in 1/100000 % : result in 1/100 %
RoundSoc(u) == RoundDiv(u, 1000)

\* math.sin of an angle given in units of pi/HalfTurn, result in 1/SinScale.
\* Computed with Bhaskara's rational approximation on [0, pi]
\* (absolute error below 0.002) and the symmetry sin(x + pi) = -sin(x).
SinHalf(x) == (4 * SinScale * (x * (HalfTurn - x))) \div ((5 * HalfTurn * HalfTurn) \div 4 - x * (HalfTurn - x))
Sin(phase) ==
    LET m == phase % (2 * HalfTurn)
    IN  IF m <= HalfTurn THEN SinHalf(m) ELSE -SinHalf(m - HalfTurn)

\* math.sin(current_time / period): period_2pi is 2*pi*period in ms
SinOfTime(t, period_2pi) == Sin(((t % period_2pi) * (2 * HalfTurn)) \div period_2pi)
SolarNoisePeriod == 62832
LoadNoisePeriod == 50265

\* p * delta_ms / 1000 / 3600 for p in 1/1000 kW : energy in 1/1000 kWh
EnergyOver(p, delta_ms) ==
    LET a   == Abs(p)
        dh  == delta_ms \div MsPerHour
        rem == delta_ms % MsPerHour
        rs  == rem \div MsPerSecond
        rms == rem % MsPerSecond
        e   == a * dh + (a * rs + (a * rms) \div MsPerSecond) \div 3600
    IN  IF p >= 0 THEN e ELSE -e

\* ------------------------------------------------------------------- clock
\* datetime.now(): minute of the local day (now.hour * 60 + now.minute)
MinuteOfDay(t) == (t % MsPerDay) \div MsPerMinute
\* now.hour
HourOfDay(t) == (t % MsPerDay) \div MsPerHour

\* ------------------------------------------------------------------- state
VARIABLES
    now,          \* the wall clock, ms
    state,        \* EMSSimulation._state
    last_update,  \* EMSSimulation._last_update
    pc,           \* per caller: "idle", "advance", "ret"
    call,         \* per caller: the function being executed
    cur,          \* per caller: current_time read by get_state
    delta,        \* per caller: delta computed by get_state
    seen,         \* per caller: the _last_update value get_state read
    resp,         \* per caller: the value returned by the last finished call
    advances,     \* number of _advance_simulation runs so far
    lastAdv,      \* locals of the latest _advance_simulation run
    appended,     \* every sample ever appended to each chart buffer
    before,       \* per caller: advances, state and _last_update when its
                  \* call started
    log           \* per advance run: its caller, its delta, the _last_update
                  \* and clock its caller had read, the clock when it ran
                  \* and the load_power it computed

vars == <<now, state, last_update, pc, call, cur, delta, seen, resp,
          advances, lastAdv, appended, before, log>>

Threads == 1 .. NumThreads
ChartKeys == <<"grid", "solar", "load", "battery">>
KeySet == {ChartKeys[i] : i \in 1 .. Len(ChartKeys)}

NoResp == [fn |-> "none", value |-> 0]

\* ------------------------------------------------------- _initialize_state
InitialState(t) ==
    [ power  |-> [grid |-> 0, solar |-> 0, battery |-> 0, load |-> 0],
      kpis   |-> [batterySOC |-> InitialSOC, energyToday |-> 0,
                  peakPowerToday |-> 0, costSavings |-> 0,
                  carbonAvoided |-> 0, activeSites |-> ActiveSites],
      charts |-> [k \in KeySet |-> << >>],
      lastUpdated |-> t ]

\* ------------------------------------------------------ _advance_simulation
\* solar_factor (lines 60-63); m is the minute of the day
SolarFactorAs(m) == Sin(m - 360)
SolarFactor(m) == IF 360 <= m /\ m <= 1080 THEN Sin(m - 360) ELSE 0

\* solar_power (line 65)
SolarPower(m, t) ==
    (SolarNameplate * SolarFactor(m) * (9000 + SinOfTime(t, SolarNoisePeriod))) \div 10000

\* load_power (lines 68-70)
LoadPower(m, t) ==
    ((BaseLoad \div 8) * (7000 + 3 * Sin(m - 360))
        * (19000 + SinOfTime(t, LoadNoisePeriod))) \div 25000

\* which branch of the battery controller runs (lines 76, 79, 82)
Branch(net_power, soc) ==
    IF net_power > 5000 /\ soc < 9500 THEN "charge"
    ELSE IF net_power < -5000 /\ soc > 1500 THEN "discharge"
    ELSE "idle"

\* battery_power (lines 77, 80, 83)
BatteryPowerAs(net_power, soc) ==
    LET b == Branch(net_power, soc)
    IN  IF b = "charge" THEN Min(TruncDiv(net_power * 4, 5), 25000)
        ELSE IF b = "discharge" THEN TruncDiv(net_power * 4, 5)
        ELSE 0
BatteryPower(net_power, soc) ==
    LET b == Branch(net_power, soc)
    IN  IF b = "charge" THEN Min(TruncDiv(net_power * 4, 5), 25000)
        ELSE IF b = "discharge" THEN Max(TruncDiv(net_power * 4, 5), -25000)
        ELSE 0

\* soc after the branch, before the clamp (lines 78, 81), in 1/100000 %
SocAfterBranch(net_power, soc, delta_ms) ==
    IF Branch(net_power, soc) = "idle" THEN soc * 1000
    ELSE soc * 1000 + EnergyOver(BatteryPower(net_power, soc), delta_ms) * 2

\* soc = max(10, min(100, soc)) (line 85)
ClampSocAs(u) == Min(10000000, u)
ClampSoc(u) == Max(1000000, Min(10000000, u))

\* grid_power (line 88)
GridPowerAs(load_power, solar_power, battery_power) ==
    load_power - solar_power + battery_power
GridPower(load_power, solar_power, battery_power) ==
    load_power - solar_power - battery_power

\* append one sample and keep only the last 100 points (lines 112-118)
AppendTrimAs(buf, sample) ==
    LET b == Append(buf, sample)
    IN  IF Len(b) > ChartCap THEN SubSeq(b, 1, Len(b) - 1) ELSE b
AppendTrimEarly(buf, sample) ==
    LET b == Append(buf, sample)
    IN  IF Len(b) >= ChartCap THEN Tail(b) ELSE b
AppendTrim(buf, sample) ==
    LET b == Append(buf, sample)
    IN  IF Len(b) > ChartCap THEN Tail(b) ELSE b

\* the locals of one run of _advance_simulation(delta_ms) at clock t
AdvanceLocals(st, delta_ms, t) ==
    LET m   == MinuteOfDay(t)
        sp  == SolarPower(m, t)
        lp  == LoadPower(m, t)
        soc == st.kpis.batterySOC
        net == sp - lp
        bp  == BatteryPower(net, soc)
    IN  [ delta_ms |-> delta_ms, current_time |-> t, minute |-> m,
          solar_power |-> sp, load_power |-> lp, net_power |-> net,
          soc_before |-> soc, branch |-> Branch(net, soc),
          battery_power |-> bp,
          soc_raw |-> SocAfterBranch(net, soc, delta_ms),
          soc |-> ClampSoc(SocAfterBranch(net, soc, delta_ms)),
          grid_power |-> GridPower(lp, sp, bp) ]

\* the state after one run of _advance_simulation, from its locals
AdvancedState(st, l) ==
    LET power == [ grid    |-> Round2(l.grid_power),
                   solar   |-> Round2(l.solar_power),
                   battery |-> Round2(l.battery_power),
                   load    |-> Round2(l.load_power) ]
        kpis  == [ batterySOC     |-> RoundSoc(l.soc),
                   energyToday    |-> st.kpis.energyToday
                                        + EnergyOver(l.load_power, l.delta_ms),
                   peakPowerToday |-> Max(st.kpis.peakPowerToday, l.load_power),
                   costSavings    |-> st.kpis.costSavings
                                        + EnergyOver(l.solar_power, l.delta_ms) * 15,
                   carbonAvoided  |-> st.kpis.carbonAvoided
                                        + EnergyOver(l.solar_power, l.delta_ms) * 82,
                   activeSites    |-> st.kpis.activeSites ]
    IN  [ power  |-> power,
          kpis   |-> kpis,
          charts |-> [k \in KeySet |->
                        AppendTrim(st.charts[k],
                                   [timestamp |-> l.current_time, value |-> power[k]])],
          lastUpdated |-> l.current_time ]

\* --------------------------------------------------------------- get_state
\* the gate of line 131
GateAs(d) == d >= GateMs
GateTenth(d) == d > GateMs \div 10
Gate(d) == d > GateMs

\* _last_update as left by _advance_simulation (line 121)
NewLastUpdate(old, current_time) == current_time

\* ------------------------------------------------------ derivation functions
\* x * num / den without overflow (x >= 0, 0 < den)
Scale(x, num, den) == (x \div den) * num + ((x % den) * num) \div den

\* the outcome of evaluating an expression: its value, or raised when a
\* ZeroDivisionError ended the evaluation
Value(v) == [raised |-> FALSE, value |-> v]
Raised == [raised |-> TRUE, value |-> 0]

\* n / d * k for n >= 0 and d > 0, truncated; operands above 100000 are
\* taken in thousands to stay within the integer range
Quot(n, d, k) ==
    LET s == IF n > 100000 \/ d > 100000 THEN 1000 ELSE 1
    IN  ((n \div s) * k) \div Max(1, d \div s)

\* Python's n / d * k: raises ZeroDivisionError when d is 0
Divide(n, d, k) == IF d = 0 THEN Raised ELSE Value(Quot(n, d, k))

\* (current - previous) / previous * 100 if previous > 0 else 0
\* (lines 199-201), in 1/10 %
ChangeAs(current, previous) == Divide(current - previous, previous, 1000)
Change(current, previous) ==
    IF previous > 0 THEN Divide(current - previous, previous, 1000) ELSE Value(0)

\* (total_consumption / peak_demand * 100) if peak_demand > 0 else 0
\* (line 222), in 1/100 %; total_consumption in 1/100 kW, peak in 1/1000 kW
LoadFactorAs(total_consumption, peak_demand) ==
    Divide(total_consumption * 10, peak_demand, 10000)
LoadFactor(total_consumption, peak_demand) ==
    IF peak_demand > 0
      THEN Divide(total_consumption * 10, peak_demand, 10000)
      ELSE Value(0)

\* the historical comparison (lines 193-197), in 1/1000 kWh
YesterdayConsumption(energy_today) == Scale(energy_today, 23, 25)
WeekConsumption(energy_today) == Scale(energy_today, 13, 2)
LastWeekConsumption(energy_today) == Scale(WeekConsumption(energy_today), 22, 25)
MonthConsumption(energy_today) == energy_today * 22
LastMonthConsumption(energy_today) == Scale(MonthConsumption(energy_today), 19, 20)

\* get_analytics (lines 175-248): consumptions in 1/1000 kWh; the breakdown,
\* the historical series and the timestamps are left out
get_analytics(st) ==
    LET total_consumption == st.power.load
        energy_today == st.kpis.energyToday
        peak_demand == st.kpis.peakPowerToday
        yesterday_consumption == YesterdayConsumption(energy_today)
        week_consumption == WeekConsumption(energy_today)
        last_week_consumption == LastWeekConsumption(energy_today)
        month_consumption == MonthConsumption(energy_today)
        last_month_consumption == LastMonthConsumption(energy_today)
        daily_change == Change(energy_today, yesterday_consumption)
        weekly_change == Change(week_consumption, last_week_consumption)
        monthly_change == Change(month_consumption, last_month_consumption)
        load_factor == LoadFactor(total_consumption, peak_demand)
    IN  [ raised |-> daily_change.raised \/ weekly_change.raised
                        \/ monthly_change.raised \/ load_factor.raised,
          todayConsumption |-> Round2(energy_today),
          yesterdayConsumption |-> Round2(yesterday_consumption),
          lastWeekConsumption |-> Round2(last_week_consumption),
          lastMonthConsumption |-> Round2(last_month_consumption),
          peakDemand |-> Round2(peak_demand),
          averageLoadFactor |-> load_factor.value,
          dailyChange |-> daily_change.value,
          weeklyChange |-> weekly_change.value,
          monthlyChange |-> monthly_change.value ]

\* get_live_telemetry (lines 137-147)
get_live_telemetry(st) ==
    [ gridPower |-> st.power.grid, solarPower |-> st.power.solar,
      loadPower |-> st.power.load, batteryPower |-> st.power.battery,
      batterySOC |-> st.kpis.batterySOC, timestamp |-> st.lastUpdated ]

\* get_kpis (lines 150-160): every accumulator rounded to 2 decimals
get_kpis(st) ==
    [ energyToday |-> Round2(st.kpis.energyToday),
      peakPower |-> Round2(st.kpis.peakPowerToday),
      costSavings |-> RoundDiv(st.kpis.costSavings, 1000),
      carbonAvoided |-> RoundDiv(st.kpis.carbonAvoided, 1000),
      activeSites |-> st.kpis.activeSites, timestamp |-> st.lastUpdated ]

\* get_charts (lines 163-172)
get_charts(st) ==
    [ grid |-> st.charts.grid, solar |-> st.charts.solar,
      load |-> st.charts.load, battery |-> st.charts.battery,
      timestamp |-> st.lastUpdated ]

\* get_site_charts (lines 529-533): the site id is ignored
get_site_charts(st) == get_charts(st)

\* the battery alert of get_alerts (lines 257-279); soc in 1/100 %
BatteryAlertsAs(soc) ==
    IF soc < 2000
      THEN << [id |-> "alert-battery-critical", severity |-> "critical",
               category |-> "battery"] >>
    ELSE IF soc <= 3000
      THEN << [id |-> "alert-battery-warning", severity |-> "warning",
               category |-> "battery"] >>
    ELSE << >>
BatteryAlerts(soc) ==
    IF soc < 2000
      THEN << [id |-> "alert-battery-critical", severity |-> "critical",
               category |-> "battery"] >>
    ELSE IF soc < 3000
      THEN << [id |-> "alert-battery-warning", severity |-> "warning",
               category |-> "battery"] >>
    ELSE << >>

\* the grid alert of get_alerts (lines 282-292); grid_power in 1/100 kW
GridAlerts(grid_power) ==
    IF Abs(grid_power) > 5000
      THEN << [id |-> "alert-grid-high", severity |-> "warning",
               category |-> "grid"] >>
    ELSE << >>

\* get_alerts (lines 251-294); the timestamp, title and message texts and the
\* acknowledged flag (always False) are left out
get_alerts(st) == BatteryAlerts(st.kpis.batterySOC) \o GridAlerts(st.power.grid)

\* tariff_structure (lines 304-311), rates in 1/10 currency unit per kWh
tariff_structure ==
    [ peak |-> 85, normal |-> 62, offPeak |-> 45, export |-> 35,
      demandCharge |-> 3500, fixedCharge |-> 1200 ]

\* get_current_rate (lines 313-319): <<rate, period type>>
get_current_rateAs(hour) ==
    IF (6 <= hour /\ hour <= 10) \/ (18 <= hour /\ hour < 22)
      THEN <<tariff_structure.peak, "peak">>
    ELSE IF 22 <= hour \/ hour < 6
      THEN <<tariff_structure.offPeak, "off-peak">>
    ELSE <<tariff_structure.normal, "mid-peak">>
get_current_rate(hour) ==
    IF (6 <= hour /\ hour < 10) \/ (18 <= hour /\ hour < 22)
      THEN <<tariff_structure.peak, "peak">>
    ELSE IF 22 <= hour \/ hour < 6
      THEN <<tariff_structure.offPeak, "off-peak">>
    ELSE <<tariff_structure.normal, "mid-peak">>

\* tariff_schedule (lines 348-377)
tariff_schedule ==
    << [name |-> "Peak Hours", startHour |-> 6, endHour |-> 10,
        rate |-> tariff_structure.peak, type |-> "peak"],
       [name |-> "Normal Hours", startHour |-> 10, endHour |-> 18,
        rate |-> tariff_structure.normal, type |-> "mid-peak"],
       [name |-> "Peak Hours", startHour |-> 18, endHour |-> 22,
        rate |-> tariff_structure.peak, type |-> "peak"],
       [name |-> "Off-Peak Hours", startHour |-> 22, endHour |-> 6,
        rate |-> tariff_structure.offPeak, type |-> "off-peak"] >>

\* period_type.replace('-', ' ').title() + " Hours" (line 392)
PeriodName(period_type) ==
    IF period_type = "peak" THEN "Peak Hours"
    ELSE IF period_type = "mid-peak" THEN "Mid Peak Hours"
    ELSE "Off Peak Hours"

\* currentRate of get_tariff (lines 321, 379-397)
CurrentRate(current_hour) ==
    LET r == get_current_rate(current_hour)
        period_type == r[2]
        start_hour == IF period_type = "peak"
                        THEN (IF current_hour < 12 THEN 6 ELSE 18)
                      ELSE IF period_type = "mid-peak" THEN 10 ELSE 22
        end_hour   == IF period_type = "peak"
                        THEN (IF current_hour < 12 THEN 10 ELSE 22)
                      ELSE IF period_type = "mid-peak" THEN 18 ELSE 6
    IN  [ name |-> PeriodName(period_type), startHour |-> start_hour,
          endHour |-> end_hour, rate |-> r[1], type |-> period_type ]

\* today_cost (lines 327-328) in 1/1000 currency unit:
\* max(0, energy_today * avg_tariff * 0.3), avg_tariff the mean of the 3 rates
TodayCost(energy_today) ==
    Max(0, Scale(energy_today, tariff_structure.peak + tariff_structure.normal
                                  + tariff_structure.offPeak, 100))

\* baseline_cost (line 344) in 1/1000 currency unit
BaselineCost(st) == TodayCost(st.kpis.energyToday) + st.kpis.costSavings \div 100

\* savings_percentage (line 345), in 1/10 %
SavingsPercentage(cost_savings, baseline_cost) ==
    IF baseline_cost > 0 THEN Divide(cost_savings, baseline_cost, 1000) ELSE Value(0)

\* get_tariff (lines 297-419): the rate and savings parts of the result (the
\* billing projection has no variable divisor); current_hour is kept in the
\* record to relate the result to the clock it was computed from
get_tariff(st, t) ==
    LET savings == SavingsPercentage(st.kpis.costSavings \div 100, BaselineCost(st))
    IN  [ raised |-> savings.raised,
          current_hour |-> HourOfDay(t),
          currentRate |-> CurrentRate(HourOfDay(t)),
          todayCost |-> Round2(TodayCost(st.kpis.energyToday)),
          savingsPercentage |-> savings.value,
          tariffSchedule |-> tariff_schedule ]

\* expected_solar (line 434) in 1/1000 kW.  At hour 18 the program computes
\* 50 * sin(pi), which in double precision is 6.1e-15 and not 0: it is held
\* as the smallest positive value.
ExpectedSolar(current_hour) ==
    IF 6 <= current_hour /\ current_hour <= 18
      THEN (IF current_hour = 18 THEN 1
            ELSE SolarNameplate * Sin((current_hour - 6) * 60))
      ELSE 0

\* cloud_cover (line 435) in 1/10 %; solar_power in 1/100 kW
CloudCover(solar_power, expected_solar) ==
    IF expected_solar = 0 THEN Value(0)
    ELSE LET q == Divide(solar_power * 10, expected_solar, 1000)
         IN  [raised |-> q.raised, value |-> Max(0, Min(1000, 1000 - q.value))]

\* get_condition (lines 437-446); cc in 1/10 %
get_condition(cc, hr) ==
    IF hr < 6 \/ hr > 19 THEN "clear"
    ELSE IF cc < 200 THEN "clear"
    ELSE IF cc < 500 THEN "partly_cloudy"
    ELSE IF cc < 800 THEN "cloudy"
    ELSE "rainy"

\* get_weather (lines 422-491): the cloud cover derived from the solar
\* output and the condition; temperature, irradiance and the forecast, which
\* divide by constants only, are left out
get_weather(st, t) ==
    LET current_hour == HourOfDay(t)
        cloud_cover == CloudCover(st.power.solar, ExpectedSolar(current_hour))
    IN  [ raised |-> cloud_cover.raised,
          current_hour |-> current_hour,
          cloudCover |-> RoundDiv(cloud_cover.value, 10),
          condition |-> get_condition(cloud_cover.value, current_hour) ]

\* the value a finished call hands back
Response(fn, st, t) ==
    CASE fn = "get_state" -> st
      [] fn = "get_live_telemetry" -> get_live_telemetry(st)
      [] fn = "get_kpis" -> get_kpis(st)
      [] fn = "get_charts" -> get_charts(st)
      [] fn = "get_site_charts" -> get_site_charts(st)
      [] fn = "get_alerts" -> get_alerts(st)
      [] fn = "get_tariff" -> get_tariff(st, t)
      [] fn = "get_analytics" -> get_analytics(st)
      [] fn = "get_weather" -> get_weather(st, t)

Functions == {"get_state", "get_live_telemetry", "get_kpis", "get_charts",
              "get_site_charts", "get_alerts", "get_tariff", "get_analytics",
              "get_weather"}

\* ------------------------------------------------------------------ actions
\* get_state up to its gate (lines 126-131), entered through function fn
Call(t, fn) ==
    /\ pc[t] = "idle"
    /\ call' = [call EXCEPT ![t] = fn]
    /\ cur' = [cur EXCEPT ![t] = now]
    /\ seen' = [seen EXCEPT ![t] = last_update]
    /\ delta' = [delta EXCEPT ![t] = now - last_update]
    /\ before' = [before EXCEPT ![t] = [advances |-> advances, state |-> state,
                                        last_update |-> last_update]]
    /\ resp' = [resp EXCEPT ![t] = NoResp]
    /\ pc' = [pc EXCEPT ![t] = IF Gate(now - last_update) THEN "advance" ELSE "ret"]
    /\ UNCHANGED <<now, state, last_update, advances, lastAdv, appended, log>>

\* _advance_simulation(delta) (lines 53-121), called by get_state (line 132)
Advance(t) ==
    /\ pc[t] = "advance"
    /\ LET l  == AdvanceLocals(state, delta[t], now)
           st == AdvancedState(state, l)
       IN  /\ state' = st
           /\ lastAdv' = l
           /\ appended' = [k \in KeySet |->
                 Append(appended[k], [timestamp |-> now, value |-> st.power[k]])]
    /\ last_update' = NewLastUpdate(last_update, now)
    /\ advances' = advances + 1
    /\ log' = Append(log, [by |-> t, delta_ms |-> delta[t], seen |-> seen[t],
                           cur |-> cur[t], at |-> now,
                           load_power |-> LoadPower(MinuteOfDay(now), now)])
    /\ pc' = [pc EXCEPT ![t] = "ret"]
    /\ UNCHANGED <<now, call, cur, delta, seen, resp, before>>

\* return of get_state (line 134) and the derivation made from the state
Return(t) ==
    /\ pc[t] = "ret"
    /\ resp' = [resp EXCEPT ![t] = [fn |-> call[t], value |-> Response(call[t], state, now)]]
    /\ pc' = [pc EXCEPT ![t] = "idle"]
    /\ UNCHANGED <<now, state, last_update, call, cur, delta, seen,
                   advances, lastAdv, appended, before, log>>

\* the wall clock moves on by d ms
Tick(d) ==
    /\ now' = now + d
    /\ UNCHANGED <<state, last_update, pc, call, cur, delta, seen, resp,
                   advances, lastAdv, appended, before, log>>

\* ----------------------------------------------------------- specifications
\* local times of day at which the process starts
StartTimes == { 6 * MsPerHour - 50, 11 * MsPerHour + 30 * MsPerMinute,
                21 * MsPerHour + 59 * MsPerMinute }
ShortTick == GateMs \div 2
LongTicks == {7 * MsPerHour, 45 * MsPerHour}

NoLocals ==
    [ delta_ms |-> 0, current_time |-> 0, minute |-> 0, solar_power |-> 0,
      load_power |-> 0, net_power |-> 0, soc_before |-> InitialSOC,
      branch |-> "none", battery_power |-> 0,
      soc_raw |-> InitialSOC * 1000, soc |-> InitialSOC * 1000,
      grid_power |-> 0 ]

InitAt(starts) ==
    /\ now \in starts
    /\ state = InitialState(now)
    /\ last_update = now
    /\ pc = [t \in Threads |-> "idle"]
    /\ call = [t \in Threads |-> "none"]
    /\ cur = [t \in Threads |-> now]
    /\ delta = [t \in Threads |-> 0]
    /\ seen = [t \in Threads |-> now]
    /\ resp = [t \in Threads |-> NoResp]
    /\ advances = 0
    /\ lastAdv = NoLocals
    /\ appended = [k \in KeySet |-> << >>]
    /\ before = [t \in Threads |-> [advances |-> 0, state |-> InitialState(now),
                                     last_update |-> now]]
    /\ log = << >>

Init == InitAt(StartTimes)

\* One sequential caller.  The clock moves in short steps around the gate
\* and in long steps while the server sits idle.
TickShort ==
    /\ \/ pc[1] = "idle" /\ now - last_update <= GateMs
       \/ pc[1] = "advance" /\ now = cur[1]
    /\ Tick(ShortTick)

TickLong ==
    /\ pc[1] = "idle" /\ now = last_update
    /\ \E d \in LongTicks : Tick(d)

SeqCall == advances < MaxAdvances /\ \E fn \in Functions : Call(1, fn)

Next == TickShort \/ TickLong \/ SeqCall \/ Advance(1) \/ Return(1)

Spec == Init /\ [][Next]_vars

\* Two concurrent callers of get_state, no lock: either may run between the
\* other's gate and its advance.
ConcTick ==
    /\ now - last_update <= GateMs
    /\ Tick(ShortTick)

ConcCall == advances < MaxConcAdvances /\ \E t \in Threads : Call(t, "get_state")

ConcAdvance == \E t \in Threads : Advance(t)

ConcReturn == \E t \in Threads : Return(t)

NextConc == ConcTick \/ ConcCall \/ ConcAdvance \/ ConcReturn

InitConc == InitAt({11 * MsPerHour + 30 * MsPerMinute})

SpecConc == InitConc /\ [][NextConc]_vars

\* One sequential client polling the charts at a fixed period, long enough
\* for the buffers to fill and evict.
PollMs == 10 * MsPerMinute

PollTick ==
    /\ pc[1] = "idle" /\ now - last_update <= GateMs
    /\ Tick(PollMs)

PollCall ==
    /\ advances < MaxChartAdvances
    /\ now - last_update > GateMs
    /\ \E fn \in {"get_charts", "get_site_charts"} : Call(1, fn)

NextCharts == PollTick \/ PollCall \/ Advance(1) \/ Return(1)

SpecCharts == Init /\ [][NextCharts]_vars

\* ================================================================== claims
\* the caller t has a finished get_state behind it (returning or returned)
Finished(t) == pc[t] = "ret" \/ (pc[t] = "idle" /\ resp[t].fn # "none")
Returned(t, fn) == pc[t] = "idle" /\ resp[t].fn = fn

\* C1: in every reachable state the stored kpis.batterySOC lies in [10, 100].
SocInRange ==
    state.kpis.batterySOC >= 1000 /\ state.kpis.batterySOC <= 10000

\* an advance whose battery branch took the soc below 10 and was clamped
SocClampedAtFloor ==
    /\ advances > 0
    /\ lastAdv.soc_raw < 1000000
    /\ state.kpis.batterySOC = 1000

\* C2: energyToday, peakPowerToday, costSavings and carbonAvoided never
\* decrease from one state to the next.
KpisNeverDecrease ==
    [][ /\ state'.kpis.energyToday >= state.kpis.energyToday
        /\ state'.kpis.peakPowerToday >= state.kpis.peakPowerToday
        /\ state'.kpis.costSavings >= state.kpis.costSavings
        /\ state'.kpis.carbonAvoided >= state.kpis.carbonAvoided ]_vars

\* an advance at night (no solar) after the accumulators have grown
KpisGrown ==
    /\ advances >= 2
    /\ lastAdv.solar_power = 0
    /\ (lastAdv.minute < 360 \/ lastAdv.minute > 1080)
    /\ state.kpis.energyToday > 0
    /\ state.kpis.peakPowerToday > 0
    /\ state.kpis.costSavings > 0
    /\ state.kpis.carbonAvoided > 0

\* the last n elements of a sequence
LastN(q, n) == IF Len(q) <= n THEN q ELSE SubSeq(q, Len(q) - n + 1, Len(q))

\* C3: each chart buffer holds at most 100 entries, and they are the most
\* recently appended samples in append order.
ChartsKeepNewest ==
    \A k \in KeySet :
        /\ Len(state.charts[k]) <= ChartCap
        /\ state.charts[k] = LastN(appended[k], ChartCap)

\* more than 100 samples appended, the oldest ones evicted
ChartsEvicted ==
    \A k \in KeySet :
        /\ Len(appended[k]) > ChartCap + 1
        /\ Len(state.charts[k]) = ChartCap
        /\ state.charts[k][1] = appended[k][Len(appended[k]) - ChartCap + 1]
        /\ state.charts[k][1] # appended[k][1]

\* successive advances are more than the gate apart
AdvancesApart ==
    \A i \in 1 .. Len(log) - 1 : log[i + 1].at - log[i].at > GateMs

\* what one finished call of a sequential caller did, given whether its
\* elapsed time counted as reaching the gate
CallEffect(t, reached) ==
    IF reached
      THEN /\ advances = before[t].advances + 1
           /\ lastAdv.delta_ms = delta[t]
           /\ delta[t] = cur[t] - before[t].last_update
           /\ state.lastUpdated = lastAdv.current_time
           /\ last_update = state.lastUpdated
           /\ state.lastUpdated >= cur[t]
      ELSE /\ advances = before[t].advances
           /\ state = before[t].state
           /\ last_update = before[t].last_update

\* C4 as stated: a call with elapsed time >= 100 ms advances exactly once
\* with delta equal to the elapsed time, and any other call does not advance.
AdvanceOnceFromGate ==
    Finished(1) => CallEffect(1, delta[1] >= GateMs)

\* C4, amended: a call with elapsed time > 100 ms advances exactly once with
\* delta equal to the elapsed time and lastUpdated becomes the clock read by
\* that advance; a call with elapsed time <= 100 ms does not advance; and two
\* advances are never less than the gate apart.
AdvanceOnceAboveGate ==
    /\ Finished(1) => CallEffect(1, delta[1] > GateMs)
    /\ AdvancesApart

\* get_site_charts returned after advancing once
SiteChartsAdvancedOnce ==
    /\ Returned(1, "get_site_charts")
    /\ delta[1] > GateMs
    /\ advances = before[1].advances + 1
    /\ advances >= 2

\* C5: a call made less than 100 ms after the last update leaves power,
\* kpis, the chart buffers and lastUpdated as they were, and get_state
\* returns that unchanged state.
QuietCallChangesNothing ==
    (Finished(1) /\ delta[1] < GateMs) =>
        /\ state = before[1].state
        /\ last_update = before[1].last_update
        /\ Returned(1, "get_state") =>
              /\ resp[1].value.power = before[1].state.power
              /\ resp[1].value.kpis = before[1].state.kpis

\* get_kpis returned inside the window, after an earlier advance
QuietKpisCall ==
    /\ Returned(1, "get_kpis")
    /\ delta[1] > 0 /\ delta[1] < GateMs
    /\ advances > 0

\* the energy of the first n runs of the advance
RECURSIVE EnergyOfRuns(_)
EnergyOfRuns(n) ==
    IF n = 0 THEN 0
    ELSE EnergyOfRuns(n - 1) + EnergyOver(log[n].load_power, log[n].delta_ms)

\* C6: without a lock every caller that passed the gate runs the advance with
\* the whole interval since the _last_update it read: each run appends one
\* sample per buffer and adds its own energy to the accumulator, whether or
\* not the other caller has applied that interval already.
EveryPassedGateApplies ==
    /\ advances = Len(log)
    /\ state.kpis.energyToday = EnergyOfRuns(Len(log))
    /\ \A k \in KeySet : Len(appended[k]) = Len(log)
    /\ \A i \in DOMAIN log :
          /\ log[i].delta_ms = log[i].cur - log[i].seen
          /\ log[i].delta_ms > GateMs
          /\ log[i].at >= log[i].cur

\* both callers read the same _last_update, both passed the gate and both
\* advanced: two samples less than the gate apart, one interval counted twice
DoubleApplied ==
    /\ Len(log) = 2
    /\ log[1].seen = log[2].seen
    /\ log[1].by # log[2].by
    /\ log[2].at - log[1].at < GateMs
    /\ Len(state.charts["grid"]) = 2
    /\ log[1].delta_ms + log[2].delta_ms > now - log[1].seen
    /\ state.kpis.energyToday > 0

\* the alerts of category c in a get_alerts result
AlertsOf(a, c) == {i \in DOMAIN a : a[i].category = c}

\* C7: get_alerts returns a critical battery alert iff SOC < 20, a warning
\* battery alert iff 20 <= SOC < 30, no battery alert iff SOC >= 30, a grid
\* alert iff |power.grid| > 50, and never two alerts of one category.
AlertsMatchState ==
    Returned(1, "get_alerts") =>
        LET a    == resp[1].value
            soc  == state.kpis.batterySOC
            grid == state.power.grid
        IN  /\ (\E i \in AlertsOf(a, "battery") : a[i].severity = "critical")
                  <=> soc < 2000
            /\ (\E i \in AlertsOf(a, "battery") : a[i].severity = "warning")
                  <=> (2000 <= soc /\ soc < 3000)
            /\ (AlertsOf(a, "battery") = {}) <=> soc >= 3000
            /\ (AlertsOf(a, "grid") # {}) <=> Abs(grid) > 5000
            /\ Cardinality(AlertsOf(a, "battery")) <= 1
            /\ Cardinality(AlertsOf(a, "grid")) <= 1
            /\ Len(a) = Cardinality(AlertsOf(a, "battery"))
                          + Cardinality(AlertsOf(a, "grid"))

\* get_alerts returned at SOC exactly 30 with the grid above 50 kW
AlertsAtThirty ==
    /\ Returned(1, "get_alerts")
    /\ state.kpis.batterySOC = 3000
    /\ Abs(state.power.grid) > 5000
    /\ Len(resp[1].value) = 1

\* hour h lies in the schedule entry's range, which may wrap past midnight
InHours(h, e) ==
    IF e.startHour < e.endHour
      THEN e.startHour <= h /\ h < e.endHour
      ELSE h >= e.startHour \/ h < e.endHour

\* C8: the current rate is peak 8.5 for hours 6-9 and 18-21, normal 6.2 for
\* hours 10-17, off-peak 4.5 for hours 22-23 and 0-5, and its type, rate,
\* startHour and endHour are those of the schedule entry containing the hour.
TariffMatchesHour ==
    Returned(1, "get_tariff") =>
        LET h == resp[1].value.current_hour
            r == resp[1].value.currentRate
            s == resp[1].value.tariffSchedule
        IN  /\ h \in 0 .. 23
            /\ (h \in 6 .. 9 \/ h \in 18 .. 21) => (r.type = "peak" /\ r.rate = 85)
            /\ h \in 10 .. 17 => (r.type = "mid-peak" /\ r.rate = 62)
            /\ (h \in 22 .. 23 \/ h \in 0 .. 5) => (r.type = "off-peak" /\ r.rate = 45)
            /\ \E i \in DOMAIN s :
                  /\ InHours(h, s[i])
                  /\ s[i].type = r.type /\ s[i].rate = r.rate
                  /\ s[i].startHour = r.startHour /\ s[i].endHour = r.endHour
            /\ \A i \in DOMAIN s : InHours(h, s[i]) => s[i].rate = r.rate

\* get_tariff returned in the first normal hour
TariffAtTen ==
    /\ Returned(1, "get_tariff")
    /\ resp[1].value.current_hour = 10
    /\ resp[1].value.currentRate.rate = 62

\* C9: the values computed by an advance satisfy, before rounding,
\* grid_power = load_power - solar_power - battery_power.
PowerBalance ==
    advances > 0 =>
        lastAdv.grid_power
            = lastAdv.load_power - lastAdv.solar_power - lastAdv.battery_power

\* an advance by day with the battery discharging
BalancedWhileDischarging ==
    /\ advances > 0
    /\ lastAdv.branch = "discharge"
    /\ lastAdv.solar_power > 0
    /\ lastAdv.battery_power < 0
    /\ lastAdv.grid_power > lastAdv.load_power - lastAdv.solar_power

\* C10: the controller charges (0 < battery_power <= 25) only when net > 5
\* and prior SOC < 95, discharges (-25 <= battery_power < 0) only when
\* net < -5 and prior SOC > 15, and otherwise leaves battery_power 0 and the
\* stored SOC unchanged; stored power.battery is within [-25, 25]; the SOC
\* never rises in a discharging advance nor falls in a charging one.
ControllerBranches ==
    advances > 0 =>
        LET bp  == lastAdv.battery_power
            net == lastAdv.net_power
            soc == lastAdv.soc_before
            canCharge    == net > 5000 /\ soc < 9500
            canDischarge == net < -5000 /\ soc > 1500
        IN  /\ bp > 0 => (canCharge /\ bp <= 25000)
            /\ bp < 0 => (canDischarge /\ ~canCharge /\ bp >= -25000)
            /\ canCharge => bp > 0
            /\ (canDischarge /\ ~canCharge) => bp < 0
            /\ (~canCharge /\ ~canDischarge) =>
                  (bp = 0 /\ state.kpis.batterySOC = soc)
            /\ state.power.battery >= -2500 /\ state.power.battery <= 2500
            /\ bp < 0 => state.kpis.batterySOC <= soc
            /\ bp > 0 => state.kpis.batterySOC >= soc

\* an advance that found the battery at or below 15 % and left it alone,
\* after discharging advances had brought it there
IdleAfterDischarge ==
    /\ advances >= 2
    /\ lastAdv.branch = "idle"
    /\ lastAdv.net_power < -5000
    /\ lastAdv.soc_before <= 1500
    /\ state.power.battery = 0
    /\ state.kpis.batterySOC = lastAdv.soc_before

\* C11: an advance that charges or discharges stores exactly
\* clamp(prior SOC + (battery_power * delta_ms/1000/3600)/100 * 2, 10, 100),
\* and a discharging advance with delta_ms > 0 stores a strictly lower SOC
\* unless it is clamped at 10.
SocFollowsFormula ==
    (advances > 0 /\ lastAdv.branch \in {"charge", "discharge"}) =>
        /\ state.kpis.batterySOC * 1000 = ClampSoc(lastAdv.soc_raw)
        /\ (lastAdv.branch = "discharge" /\ lastAdv.delta_ms > 0) =>
              \/ state.kpis.batterySOC < lastAdv.soc_before
              \/ state.kpis.batterySOC = 1000

\* C12: get_analytics, get_tariff and get_weather never divide by zero: a
\* ratio whose denominator is 0 (peak demand, yesterday's, last week's and
\* last month's consumption, baseline cost, expected solar) yields 0.
NoDivisionByZero ==
    /\ Returned(1, "get_analytics") =>
          LET a == resp[1].value
          IN  /\ ~a.raised
              /\ state.kpis.peakPowerToday = 0 => a.averageLoadFactor = 0
              /\ YesterdayConsumption(state.kpis.energyToday) = 0
                    => a.dailyChange = 0
              /\ LastWeekConsumption(state.kpis.energyToday) = 0
                    => a.weeklyChange = 0
              /\ LastMonthConsumption(state.kpis.energyToday) = 0
                    => a.monthlyChange = 0
    /\ Returned(1, "get_tariff") =>
          /\ ~resp[1].value.raised
          /\ BaselineCost(state) = 0 => resp[1].value.savingsPercentage = 0
    /\ Returned(1, "get_weather") =>
          /\ ~resp[1].value.raised
          /\ ExpectedSolar(resp[1].value.current_hour) = 0
                => resp[1].value.cloudCover = 0

\* get_analytics returned on the freshly initialized state
AnalyticsOnFreshState ==
    /\ Returned(1, "get_analytics")
    /\ advances = 0
    /\ state.kpis.peakPowerToday = 0 /\ state.kpis.energyToday = 0
    /\ state.kpis.costSavings = 0
    /\ ~resp[1].value.raised
    /\ resp[1].value.averageLoadFactor = 0

\* C13: the four chart buffers have the same length, min(number of advances,
\* 100), and once an advance has run the newest entry of charts[key] carries
\* the current power[key].
ChartsTrackPower ==
    \A k \in KeySet :
        /\ Len(state.charts[k]) = Min(advances, ChartCap)
        /\ advances >= 1 =>
              state.charts[k][Len(state.charts[k])].value = state.power[k]

\* the buffers are full, more advances than the cap have run, and the
\* newest samples carry the non-zero powers of the latest advance
FullChartsTrackPower ==
    /\ advances > ChartCap
    /\ \A k \in KeySet : Len(state.charts[k]) = ChartCap
    /\ state.charts["grid"][ChartCap].value = state.power.grid
    /\ state.charts["battery"][ChartCap].value = state.power.battery
    /\ state.power.grid # 0 /\ state.power.battery # 0
    /\ state.charts["load"][ChartCap].timestamp = state.lastUpdated

====
